---- MODULE Spec2Model ----
(***************************************************************************)
(* tila: capture of input-device events into a timestamped log.           *)
(*                                                                         *)
(* The model follows src/main.rs.  The main thread runs run_listeners:    *)
(* turn_on_listeners spawns one thread per device number, each running    *)
(* activate_number_listener; create_new_log_file allocates the log file;  *)
(* write_uncompressed drains the mpsc channel into stdout and a           *)
(* BufWriter over the file.                                                *)
(*                                                                         *)
(* Strings are sequences of tokens, so that formatting, appending and     *)
(* clearing act as they do on a Rust String:                               *)
(*   <<"ts", t>>   the decimal digits of the timestamp t                   *)
(*   <<"sp", 0>>   one space                                               *)
(*   <<"raw", n>>  the body of a raw line of n bytes read from the child   *)
(*   <<"nl", 0>>   the line's terminating newline                          *)
(*                                                                         *)
(* get_device_numbers, which gives run_listeners its device numbers, and  *)
(* decode, which main runs instead of run_listeners when it is given a    *)
(* path, work on text character by character: there a text is a sequence  *)
(* of characters (SpecDiscovery, SpecDecode).                              *)
(***************************************************************************)
EXTENDS Integers, Sequences, FiniteSets, TLC

VARIABLES
    device_numbers, \* run_listeners: the Vec<u8> returned by get_device_numbers
    mainpc,         \* position of the main thread in run_listeners
    lpc,            \* position of each listener thread
    line,           \* each listener's String buffer `line`
    closed,         \* each listener's child stdout has reached end of stream
    chan,           \* the mpsc channel's queue
    echoed,         \* what print! has put on stdout
    cur,            \* write_uncompressed: the received `line` not yet written
    buf,            \* the BufWriter's buffer
    file,           \* content of the log file of this run
    dir_exists,     \* the data directory exists
    entries,        \* names of the entries of the data directory
    listing,        \* the entries read_dir saw in get_log_file_path
    path,           \* the path computed by get_log_file_path
    clobbered,      \* File::create truncated an entry that existed
    allocated,      \* history: counters of the log files the runs created
    runs,           \* number of capture runs started so far
    clock,          \* SystemTime::now(), in microseconds
    contents,       \* decode: the text read from the log file
    lines_iter,     \* decode: the lines the for loop has not yet taken
    results,        \* decode: the String `results`
    dpc,            \* decode: state of the Decoder
    records,        \* history: the records the decoded file is made of
    output,         \* get_device_numbers: what xinput list printed
    matched_lines,  \* the lines parse_device_numbers has not yet taken
    numbers,        \* parse_device_numbers: the Vec `numbers`
    gpc,            \* position in get_device_numbers
    listed,         \* history: the devices xinput list printed
    sent,           \* history: records each listener has sent, in order
    produced,       \* history: raw lines each listener's read_line returned
    arrivals,       \* history: records in the order they entered the channel
    written,        \* history: records handed to the BufWriter, in order
    readAt,         \* history: clock at the return of the listener's last read
    lastSendAt      \* history: clock at the listener's last send

vars == <<device_numbers, mainpc, lpc, line, closed, chan, echoed, cur, buf,
          file, dir_exists, entries, listing, path, clobbered, allocated,
          runs, clock, contents, lines_iter, results, dpc, records,
          output, matched_lines, numbers, gpc, listed,
          sent, produced, arrivals, written, readAt, lastSendAt>>

listenerVars == <<lpc, line, closed, chan, sent, produced, arrivals, readAt,
                  lastSendAt>>
sinkVars == <<echoed, cur, buf, file, written>>
storeVars == <<dir_exists, entries, listing, path, clobbered, allocated>>
decodeVars == <<contents, lines_iter, results, dpc, records>>
discoveryVars == <<output, matched_lines, numbers, gpc, listed>>

(* What no step of a capture run changes *)
fixedVars == <<device_numbers, decodeVars, discoveryVars>>

----------------------------------------------------------------------------
(* Bounds *)

MaxSends == 2       \* records sent on the channel in one run
MaxClock == 1       \* clock values
MaxRuns == 3        \* successive capture runs (log store)
MaxRecords == 3     \* records in a log file given to decode
MaxListed == 2      \* lines in the output of xinput list

(* Byte lengths of the lines a child process prints, newline included: a
   line that fits the BufWriter with room to spare, and one that is larger
   than the whole buffer. *)
RawLines == {3001, 4101}

(* What read_line returns at end of stream: 0 bytes read *)
Eof == 0

(* The device numbers xinput lists for the device name: get_device_numbers
   returns none, the first or both. *)
DeviceIds == <<11, 12>>

----------------------------------------------------------------------------
(* Strings *)

TS(t) == <<"ts", t>>
SP == <<"sp", 0>>
RAW(n) == <<"raw", n>>
NL == <<"nl", 0>>

RECURSIVE Digits(_)
Digits(n) == IF n < 10 THEN 1 ELSE 1 + Digits(n \div 10)

TokenLen(tok) ==
    CASE tok[1] = "ts" -> Digits(tok[2])
      [] tok[1] = "raw" -> tok[2]
      [] OTHER -> 1

RECURSIVE ByteLen(_)
ByteLen(s) == IF s = <<>> THEN 0 ELSE TokenLen(Head(s)) + ByteLen(Tail(s))

IsPrefix(s, t) == Len(s) <= Len(t) /\ SubSeq(t, 1, Len(s)) = s

(* SystemTime::now().duration_since(UNIX_EPOCH).as_micros(), evaluated at
   the top of every iteration *)
micros_since_the_epoch == clock

(* write!(line, "{} ", micros_since_the_epoch) *)
write_secs(s, t) == s \o <<TS(t \div 1000000), SP>>
write_micros(s, t) == s \o <<TS(t), SP>>

(* reader.read_line(&mut line): appends the got bytes that were read, a line
   body and its newline; nothing at end of stream *)
read_line(s, got) == IF got = Eof THEN s ELSE s \o <<RAW(got - 1), NL>>

(* line.is_empty() *)
is_empty(s) == Len(s) = 0

(* line.clear() *)
clear(s) == <<>>

----------------------------------------------------------------------------
(* The channel *)

Listeners == 1..Len(device_numbers)

Exited(i) == lpc[i] \in {"returned", "panic_spawn", "panic_read", "panic_send"}
Running(i) == lpc[i] \in {"spawn_child", "now", "read_line", "send"}

(* The Receiver lives in run_listeners / write_uncompressed and is dropped
   when that frame returns or unwinds. *)
ReceiverAlive == mainpc \notin {"done", "panicked", "exit_0", "exit_101"}

(* The process has ended: status 0 after main returned, 101 after it
   panicked. *)
ProcessExited == mainpc \in {"exit_0", "exit_101"}

(* Senders: tx of turn_on_listeners until it returns, and the clones owned
   by each spawned thread until the thread ends. *)
SenderCount ==
    (IF mainpc = "turn_on_listeners" THEN 1 ELSE 0)
    + Cardinality({i \in Listeners : Running(i)})

try_recv_disconnected == TRUE
(* receiver.recv() on an empty queue fails once no Sender is left. *)
Disconnected == SenderCount = 0

(* tx.send(..).unwrap() on a closed channel: the panic unwinds the thread
   that called it. *)
send_failed_abort(i) == [j \in Listeners |-> "panic_send"]
send_failed(i) == [lpc EXCEPT ![i] = "panic_send"]

(* receiver.recv() takes one element out of the queue *)
TakeAll(q, k) == <<>>
RemoveAt(q, k) == SubSeq(q, 1, k - 1) \o SubSeq(q, k + 1, Len(q))

(* tx.send(m): the queue is FIFO *)
channel_send_lifo(q, m) == <<m>> \o q
channel_send(q, m) == Append(q, m)

Timestamp(text) == text[1][2]

(* receiver.recv(): index of the element taken from a non-empty queue *)
channel_recv_oldest_stamp(q) ==
    CHOOSE k \in 1..Len(q) :
        \A j \in 1..Len(q) :
            \/ Timestamp(q[k].text) < Timestamp(q[j].text)
            \/ Timestamp(q[k].text) = Timestamp(q[j].text) /\ k <= j
channel_recv(q) == 1

----------------------------------------------------------------------------
(* The log store *)

NoPath == <<"none", 0>>

(* format!("tila-{file_count}.log") *)
log_file_name(file_count) == <<"tila", file_count>>

(* get_log_file_path: the name embeds the number of entries read_dir
   yields *)
get_log_file_path(dir_entries) == log_file_name(Cardinality(dir_entries))

(* Names of directory entries that are not of the form tila-<n>.log *)
OtherName == <<"other", 0>>

----------------------------------------------------------------------------
(* The BufWriter *)

BufCapacity == 4096   \* BufWriter::with_capacity(4096, file)

buf_write_all_bypass(b, f, data) ==
    LET n == ByteLen(data)
    IN  IF n >= BufCapacity
        THEN [buf |-> b, file |-> f \o data]
        ELSE IF n < BufCapacity - ByteLen(b)
             THEN [buf |-> b \o data, file |-> f]
             ELSE [buf |-> data, file |-> f \o b]

(* BufWriter::write_all when every write to the file succeeds: data that
   fits is buffered; otherwise the buffer is flushed first when data exceeds
   the spare room, and data as large as the buffer goes straight to the
   file. *)
buf_write_all(b, f, data) ==
    LET n == ByteLen(data)
        spare == BufCapacity - ByteLen(b)
    IN  IF n < spare
        THEN [buf |-> b \o data, file |-> f]
        ELSE LET b1 == IF n > spare THEN <<>> ELSE b
                 f1 == IF n > spare THEN f \o b ELSE f
             IN  IF n >= BufCapacity
                 THEN [buf |-> b1, file |-> f1 \o data]
                 ELSE [buf |-> b1 \o data, file |-> f1]

(* The write touches the file, and so can fail. *)
buf_write_does_io(b, data) ==
    LET n == ByteLen(data)
        spare == BufCapacity - ByteLen(b)
    IN  (n > spare /\ b # <<>>) \/ (n >= spare /\ n >= BufCapacity)

(* BufWriter::flush when the write succeeds *)
buf_flush(b, f) == [buf |-> <<>>, file |-> f \o b]

----------------------------------------------------------------------------
(* Initial states *)

NoMsg == [from |-> 0, n |-> 0, text |-> <<>>]

InitCapture(devs, exists, names) ==
    /\ device_numbers = devs
    /\ lpc = [i \in 1..Len(devs) |-> "unspawned"]
    /\ line = [i \in 1..Len(devs) |-> <<>>]
    /\ closed = [i \in 1..Len(devs) |-> FALSE]
    /\ chan = <<>>
    /\ echoed = <<>>
    /\ cur = NoMsg
    /\ buf = <<>>
    /\ file = <<>>
    /\ dir_exists = exists
    /\ entries = names
    /\ listing = {}
    /\ path = NoPath
    /\ clobbered = FALSE
    /\ allocated = <<>>
    /\ runs = 1
    /\ clock = 0
    /\ sent = [i \in 1..Len(devs) |-> <<>>]
    /\ produced = [i \in 1..Len(devs) |-> <<>>]
    /\ arrivals = <<>>
    /\ written = <<>>
    /\ readAt = [i \in 1..Len(devs) |-> 0]
    /\ lastSendAt = [i \in 1..Len(devs) |-> 0]

(* main was started with no argument: decode is not run. *)
NoDecode ==
    /\ contents = <<>>
    /\ lines_iter = <<>>
    /\ results = <<>>
    /\ dpc = "not_run"
    /\ records = <<>>

(* main was started with an argument: run_listeners is not run. *)
NoDiscovery ==
    /\ output = <<>>
    /\ matched_lines = <<>>
    /\ numbers = <<>>
    /\ gpc = "not_run"
    /\ listed = <<>>

(* get_device_numbers has returned devs. *)
Discovered(devs) ==
    /\ output = <<>>
    /\ matched_lines = <<>>
    /\ numbers = devs
    /\ gpc = "returned"
    /\ listed = <<>>

(* The state when run_listeners has its device numbers (main.rs:141) *)
InitWith(devs, exists, names) ==
    /\ mainpc = "turn_on_listeners"
    /\ InitCapture(devs, exists, names)
    /\ NoDecode
    /\ Discovered(devs)

(* A capture run: none, one or two devices; the data directory
   is absent, or present and empty. *)
Init ==
    \E k \in 0..Len(DeviceIds) : \E exists \in BOOLEAN :
        InitWith(SubSeq(DeviceIds, 1, k), exists, {})

----------------------------------------------------------------------------
(* run_listeners, main thread *)

(* turn_on_listeners: one thread per device number, each owning a clone of
   tx; the function's own tx is dropped when it returns rx. *)
turn_on_listeners ==
    /\ mainpc = "turn_on_listeners"
    /\ lpc' = [i \in Listeners |-> "spawn_child"]
    /\ mainpc' = "create_new_log_file"
    /\ UNCHANGED <<fixedVars, line, closed, chan, sent, produced,
                   arrivals, readAt, lastSendAt, sinkVars, storeVars, runs,
                   clock>>

(* create_new_log_file: create_folder_if_not_existent runs fs::create_dir
   only when the path does not exist; get_log_file_path counts the entries
   of the directory and joins "tila-<count>.log" to it; fs::File::create
   creates that file, or truncates it when it exists.  Each of data_dir,
   create_dir, read_dir and File::create panics when it fails. *)
create_new_log_file ==
    /\ mainpc = "create_new_log_file"
    /\ \/ /\ mainpc' = "panicked"
          /\ UNCHANGED <<storeVars, file>>
       \/ /\ dir_exists' = TRUE
          /\ \/ /\ mainpc' = "panicked"
                /\ UNCHANGED <<listing, path, clobbered, allocated, entries,
                               file>>
             \/ /\ listing' = entries
                /\ path' = get_log_file_path(entries)
                /\ \/ /\ clobbered' = (path' \in entries)
                      /\ entries' = entries \cup {path'}
                      /\ allocated' = Append(allocated, path'[2])
                      /\ file' = <<>>
                      /\ mainpc' = "recv"
                   \/ /\ mainpc' = "panicked"
                      /\ UNCHANGED <<clobbered, allocated, entries, file>>
    /\ UNCHANGED <<fixedVars, listenerVars, echoed, cur, buf, written,
                   runs, clock>>

(* write_uncompressed: receiver.recv() and print!.  recv blocks while the
   queue is empty and a sender lives, and fails once the queue is empty and
   every sender is dropped.  print! panics when stdout cannot be written. *)
write_uncompressed_recv ==
    /\ mainpc = "recv"
    /\ \/ /\ chan # <<>>
          /\ LET k == channel_recv(chan)
             IN  /\ cur' = chan[k]
                 /\ chan' = RemoveAt(chan, k)
                 /\ \/ /\ echoed' = echoed \o chan[k].text
                       /\ mainpc' = "write"
                    \/ /\ mainpc' = "panicked"
                       /\ UNCHANGED echoed
       \/ /\ chan = <<>>
          /\ Disconnected
          /\ mainpc' = "flush"
          /\ UNCHANGED <<cur, chan, echoed>>
    /\ UNCHANGED <<fixedVars, lpc, line, closed, sent, produced,
                   arrivals, readAt, lastSendAt, buf, file, written,
                   storeVars, runs, clock>>

(* write_uncompressed: write!(writer, "{}", line).  A failed write panics
   with part of the bytes written; unwinding drops the BufWriter, which
   tries to flush what its buffer still holds. *)
write_uncompressed_write ==
    /\ mainpc = "write"
    /\ \/ /\ LET r == buf_write_all(buf, file, cur.text)
             IN  buf' = r.buf /\ file' = r.file
          /\ written' = Append(written, cur)
          /\ mainpc' = "recv"
       \/ /\ buf_write_does_io(buf, cur.text)
          /\ LET direct == ByteLen(cur.text) >= BufCapacity
                 out == IF direct THEN buf \o cur.text ELSE buf
             IN  \E k \in 0..Len(out) :
                    /\ direct => k < Len(out)
                    /\ file' = file \o SubSeq(out, 1, k)
          /\ buf' = <<>>
          /\ mainpc' = "panicked"
          /\ UNCHANGED written
    /\ UNCHANGED <<fixedVars, listenerVars, echoed, cur, storeVars,
                   runs, clock>>

(* write_uncompressed: writer.flush() after the loop; a failure panics with
   part of the buffer written, and the dropped BufWriter may write the
   rest. *)
write_uncompressed_flush ==
    /\ mainpc = "flush"
    /\ \/ /\ LET r == buf_flush(buf, file)
             IN  buf' = r.buf /\ file' = r.file
          /\ mainpc' = "done"
       \/ /\ buf # <<>>
          /\ \E k \in 0..Len(buf) : file' = file \o SubSeq(buf, 1, k)
          /\ buf' = <<>>
          /\ mainpc' = "panicked"
    /\ UNCHANGED <<fixedVars, listenerVars, echoed, cur, written,
                   storeVars, runs, clock>>

(* main returns or its panic ends the process: every thread stops. *)
process_exit ==
    /\ mainpc \in {"done", "panicked"}
    /\ mainpc' = IF mainpc = "done" THEN "exit_0" ELSE "exit_101"
    /\ UNCHANGED <<fixedVars, listenerVars, sinkVars, storeVars, runs,
                   clock>>

----------------------------------------------------------------------------
(* activate_number_listener, one thread per device *)

(* spawn_child(&["xinput", "test", number]); a failed spawn panics. *)
spawn_child(i) ==
    /\ ~ProcessExited
    /\ lpc[i] = "spawn_child"
    /\ \/ lpc' = [lpc EXCEPT ![i] = "now"]
       \/ lpc' = [lpc EXCEPT ![i] = "panic_spawn"]
    /\ UNCHANGED <<fixedVars, mainpc, line, closed, chan, sent,
                   produced, arrivals, readAt, lastSendAt, sinkVars,
                   storeVars, runs, clock>>

(* Top of the loop: SystemTime::now() and write!(line, "{} ", micros). *)
sample_timestamp(i) ==
    /\ ~ProcessExited
    /\ lpc[i] = "now"
    /\ Len(arrivals) + Cardinality({j \in Listeners :
                                      lpc[j] \in {"read_line", "send"}})
          < MaxSends
    /\ line' = [line EXCEPT ![i] = write_micros(line[i], micros_since_the_epoch)]
    /\ lpc' = [lpc EXCEPT ![i] = "read_line"]
    /\ UNCHANGED <<fixedVars, mainpc, closed, chan, sent, produced,
                   arrivals, readAt, lastSendAt, sinkVars, storeVars, runs,
                   clock>>

(* reader.read_line(&mut line).unwrap() and the is_empty test.  The read
   returns a line, or 0 bytes at end of stream, or an error that panics. *)
read_line_step(i) ==
    /\ ~ProcessExited
    /\ lpc[i] = "read_line"
    /\ \/ \E got \in RawLines \cup {Eof} :
            /\ got = Eof \/ ~closed[i]
            /\ LET s == read_line(line[i], got)
               IN  /\ line' = [line EXCEPT ![i] = s]
                   /\ lpc' = [lpc EXCEPT ![i] =
                                IF is_empty(s) THEN "returned" ELSE "send"]
            /\ closed' = [closed EXCEPT ![i] = (got = Eof)]
            /\ produced' = [produced EXCEPT ![i] = Append(@, got)]
            /\ readAt' = [readAt EXCEPT ![i] = clock]
       \/ /\ lpc' = [lpc EXCEPT ![i] = "panic_read"]
          /\ UNCHANGED <<line, closed, produced, readAt>>
    /\ UNCHANGED <<fixedVars, mainpc, chan, sent, arrivals, lastSendAt,
                   sinkVars, storeVars, runs, clock>>

(* tx.send(line.clone()).unwrap() and line.clear().  send fails, and the
   unwrap panics, when the Receiver has been dropped. *)
send_step(i) ==
    /\ ~ProcessExited
    /\ lpc[i] = "send"
    /\ IF ReceiverAlive
       THEN LET m == [from |-> i, n |-> Len(sent[i]) + 1, text |-> line[i]]
            IN  /\ chan' = channel_send(chan, m)
                /\ sent' = [sent EXCEPT ![i] = Append(@, m)]
                /\ arrivals' = Append(arrivals, m)
                /\ lastSendAt' = [lastSendAt EXCEPT ![i] = clock]
                /\ line' = [line EXCEPT ![i] = clear(line[i])]
                /\ lpc' = [lpc EXCEPT ![i] = "now"]
       ELSE /\ lpc' = send_failed(i)
            /\ UNCHANGED <<chan, sent, arrivals, lastSendAt, line>>
    /\ UNCHANGED <<fixedVars, mainpc, closed, produced, readAt,
                   sinkVars, storeVars, runs, clock>>

(* Wall-clock time passes. *)
Tick ==
    /\ ~ProcessExited
    /\ clock < MaxClock
    /\ clock' = clock + 1
    /\ UNCHANGED <<fixedVars, mainpc, listenerVars, sinkVars, storeVars,
                   runs>>

activate_number_listener(i) ==
    \/ spawn_child(i)
    \/ sample_timestamp(i)
    \/ read_line_step(i)
    \/ send_step(i)

run_listeners ==
    \/ turn_on_listeners
    \/ create_new_log_file
    \/ write_uncompressed_recv
    \/ write_uncompressed_write
    \/ write_uncompressed_flush
    \/ process_exit

Next ==
    \/ turn_on_listeners
    \/ create_new_log_file
    \/ write_uncompressed_recv
    \/ write_uncompressed_write
    \/ write_uncompressed_flush
    \/ process_exit
    \/ \E i \in Listeners : spawn_child(i)
    \/ \E i \in Listeners : sample_timestamp(i)
    \/ \E i \in Listeners : read_line_step(i)
    \/ \E i \in Listeners : send_step(i)
    \/ Tick

Spec == Init /\ [][Next]_vars

----------------------------------------------------------------------------
(* Scheduling.  The OS runs every thread that can take a step: the main
   thread, and each listener where it does not wait for its child.  A read is
   certain to return only once the child's stdout is at end of stream. *)

listener_progress(i) ==
    \/ spawn_child(i)
    \/ sample_timestamp(i)
    \/ closed[i] /\ read_line_step(i)
    \/ send_step(i)

(* No guard reads the clock: timestamps are data.  Progress is checked with
   the clock standing still, every event within one microsecond. *)
NextLive ==
    \/ turn_on_listeners
    \/ create_new_log_file
    \/ write_uncompressed_recv
    \/ write_uncompressed_write
    \/ write_uncompressed_flush
    \/ process_exit
    \/ \E i \in Listeners : spawn_child(i)
    \/ \E i \in Listeners : sample_timestamp(i)
    \/ \E i \in Listeners : read_line_step(i)
    \/ \E i \in Listeners : send_step(i)

LiveSpec ==
    /\ Init
    /\ [][NextLive]_vars
    /\ WF_vars(run_listeners)
    /\ \A i \in 1..Len(DeviceIds) :
          WF_vars(i \in Listeners /\ listener_progress(i))

----------------------------------------------------------------------------
(* Successive capture runs over one data directory, with no device found:
   what the log store does from any directory content. *)

StoreNames == {log_file_name(0), log_file_name(1), log_file_name(2),
               OtherName}

InitStore ==
    \/ InitWith(<<>>, FALSE, {})
    \/ \E names \in SUBSET StoreNames : InitWith(<<>>, TRUE, names)

(* The program is started again on the directory the last run left. *)
next_run ==
    /\ ProcessExited
    /\ runs < MaxRuns
    /\ runs' = runs + 1
    /\ mainpc' = "turn_on_listeners"
    /\ echoed' = <<>>
    /\ cur' = NoMsg
    /\ buf' = <<>>
    /\ file' = <<>>
    /\ written' = <<>>
    /\ listing' = {}
    /\ path' = NoPath
    /\ clobbered' = FALSE
    /\ UNCHANGED <<fixedVars, listenerVars, dir_exists, entries,
                   allocated, clock>>

NextStore ==
    \/ turn_on_listeners
    \/ create_new_log_file
    \/ write_uncompressed_recv
    \/ write_uncompressed_flush
    \/ process_exit
    \/ next_run

SpecStore == InitStore /\ [][NextStore]_vars

----------------------------------------------------------------------------
(* decode.  Text is a sequence of characters; a word that is only ever
   compared as a whole ("key", "press", "release", a timestamp, other
   letters) is one element, digits and white space are single characters. *)

Stamp == "1652024669524708"
Letters == "abc"

DigitChars == <<"0", "1", "2", "3", "4", "5", "6", "7", "8", "9">>

(* char::is_whitespace, for the characters of the model *)
is_whitespace(c) == c \in {" ", "\t", "\r", "\n"}

(* char::to_digit(10): the digit's value, or 10 for any other character *)
to_digit(c) ==
    IF \E d \in 1..10 : DigitChars[d] = c
    THEN (CHOOSE d \in 1..10 : DigitChars[d] = c) - 1
    ELSE 10

(* str::lines: the text between line feeds, without a carriage return that
   ends it; a final line needs no line feed, and nothing follows the last
   line feed. *)
strip_cr(s) ==
    IF s # <<>> /\ s[Len(s)] = "\r" THEN SubSeq(s, 1, Len(s) - 1) ELSE s

RECURSIVE lines(_)
lines(s) ==
    IF s = <<>> THEN <<>>
    ELSE IF \E k \in 1..Len(s) : s[k] = "\n"
         THEN LET k == CHOOSE k \in 1..Len(s) :
                          s[k] = "\n" /\ \A j \in 1..(k - 1) : s[j] # "\n"
              IN  <<strip_cr(SubSeq(s, 1, k - 1))>>
                      \o lines(SubSeq(s, k + 1, Len(s)))
         ELSE <<strip_cr(s)>>

(* str::trim *)
RECURSIVE trim_start(_)
trim_start(s) ==
    IF s # <<>> /\ is_whitespace(Head(s)) THEN trim_start(Tail(s)) ELSE s

RECURSIVE trim_end(_)
trim_end(s) ==
    IF s # <<>> /\ is_whitespace(s[Len(s)])
    THEN trim_end(SubSeq(s, 1, Len(s) - 1))
    ELSE s

trim(s) == trim_end(trim_start(s))

RECURSIVE split_on_space(_)
split_on_space(s) ==
    IF \E k \in 1..Len(s) : s[k] = " "
    THEN LET k == CHOOSE k \in 1..Len(s) :
                     s[k] = " " /\ \A j \in 1..(k - 1) : s[j] # " "
         IN  <<SubSeq(s, 1, k - 1)>> \o split_on_space(SubSeq(s, k + 1, Len(s)))
    ELSE <<s>>

(* str::split_whitespace: the maximal runs of characters that are not white
   space, in order *)
RECURSIVE split_whitespace(_)
split_whitespace(s) ==
    LET t == trim_start(s)
    IN  IF t = <<>> THEN <<>>
        ELSE LET n == IF \E k \in 1..Len(t) : is_whitespace(t[k])
                      THEN (CHOOSE k \in 1..Len(t) :
                               /\ is_whitespace(t[k])
                               /\ \A j \in 1..(k - 1) : ~is_whitespace(t[j]))
                           - 1
                      ELSE Len(t)
             IN  <<SubSeq(t, 1, n)>>
                     \o split_whitespace(SubSeq(t, n + 1, Len(t)))

(* The Err of str::parse::<u8> *)
ParseIntError == -1

(* u8::from_str: an optional "+", then one digit or more, every step of
   10 * acc + digit checked against u8::MAX = 255 *)
RECURSIVE parse_digits(_, _)
parse_digits(acc, s) ==
    IF s = <<>> THEN acc
    ELSE LET d == to_digit(Head(s))
         IN  IF d = 10 \/ 10 * acc + d > 255
             THEN ParseIntError
             ELSE parse_digits(10 * acc + d, Tail(s))

parse_u8_lenient(s) ==
    LET ds == SelectSeq(s, LAMBDA c : to_digit(c) < 10)
    IN  IF ds = <<>> THEN 0 ELSE parse_digits(0, ds) % 256
parse_u8(s) ==
    LET ds == IF s # <<>> /\ Head(s) = "+" THEN Tail(s) ELSE s
    IN  IF ds = <<>> THEN ParseIntError ELSE parse_digits(0, ds)

(* sugars::hmap! { 24 => 'q', ... } *)
keycode_translation ==
    24 :> "q" @@ 25 :> "w" @@ 26 :> "e" @@ 27 :> "r" @@ 28 :> "t" @@
    29 :> "y" @@ 30 :> "u" @@ 31 :> "i" @@ 32 :> "o" @@ 33 :> "p" @@
    38 :> "a" @@ 39 :> "s" @@ 40 :> "d" @@ 41 :> "f" @@ 42 :> "g" @@
    43 :> "h" @@ 44 :> "j" @@ 45 :> "k" @@ 46 :> "l" @@
    52 :> "z" @@ 53 :> "x" @@ 54 :> "c" @@ 55 :> "v" @@ 56 :> "b" @@
    57 :> "n" @@ 58 :> "m" @@
    65 :> " "

(* One iteration of the for loop: the trimmed line is split; each of the
   four next().unwrap() panics when the fields have run out; the keycode is
   parsed, with expect, only when the operation is "press"; a character is
   pushed only for a keycode of the table.  ok is FALSE when the iteration
   panics. *)
decode_line(res, text) ==
    LET split_iter == split_whitespace(trim(text))
    IN  IF Len(split_iter) < 4
        THEN [ok |-> FALSE, results |-> res]
        ELSE LET operation == split_iter[3]
                 keycode == split_iter[4]
             IN  IF operation = <<"press">>
                 THEN LET code == parse_u8(keycode)
                      IN  IF code = ParseIntError
                          THEN [ok |-> FALSE, results |-> res]
                          ELSE IF code \in DOMAIN keycode_translation
                               THEN [ok |-> TRUE,
                                     results |->
                                        Append(res, keycode_translation[code])]
                               ELSE [ok |-> TRUE, results |-> res]
                 ELSE [ok |-> TRUE, results |-> res]

(* fs::read_to_string(path).expect("could not read file") *)
decode_read_to_string ==
    /\ dpc = "read_to_string"
    /\ \/ /\ dpc' = "Reading"
          /\ lines_iter' = lines(contents)
          /\ UNCHANGED mainpc
       \/ /\ dpc' = "panic_read"
          /\ mainpc' = "panicked"
          /\ UNCHANGED lines_iter
    /\ UNCHANGED <<device_numbers, discoveryVars, contents, results, records,
                   listenerVars, sinkVars, storeVars, runs, clock>>

decode_next_line_streaming ==
    /\ dpc = "Reading"
    /\ lines_iter # <<>>
    /\ LET r == decode_line(results, Head(lines_iter))
       IN  /\ results' = r.results
           /\ echoed' = echoed \o SubSeq(r.results, Len(results) + 1,
                                         Len(r.results))
           /\ dpc' = IF r.ok THEN "Reading" ELSE "ParseError"
           /\ mainpc' = IF r.ok THEN mainpc ELSE "panicked"
    /\ lines_iter' = Tail(lines_iter)
    /\ UNCHANGED <<device_numbers, discoveryVars, contents, records,
                   listenerVars, cur, buf, file, written, storeVars, runs,
                   clock>>

(* The body of the for loop, for the next line *)
decode_next_line ==
    /\ dpc = "Reading"
    /\ lines_iter # <<>>
    /\ LET r == decode_line(results, Head(lines_iter))
       IN  /\ results' = r.results
           /\ dpc' = IF r.ok THEN "Reading" ELSE "ParseError"
           /\ mainpc' = IF r.ok THEN mainpc ELSE "panicked"
    /\ lines_iter' = Tail(lines_iter)
    /\ UNCHANGED <<device_numbers, discoveryVars, contents, records,
                   listenerVars, sinkVars, storeVars, runs, clock>>

(* println!("{results}") once the iterator is exhausted *)
decode_println ==
    /\ dpc = "Reading"
    /\ lines_iter = <<>>
    /\ echoed' = echoed \o results \o <<"\n">>
    /\ dpc' = "EndOfInput"
    /\ mainpc' = "done"
    /\ UNCHANGED <<device_numbers, discoveryVars, contents, lines_iter,
                   results, records, lpc, line, closed, chan, sent, produced,
                   arrivals, readAt, lastSendAt, cur, buf, file, written,
                   storeVars, runs, clock>>

decode ==
    \/ decode_read_to_string
    \/ decode_next_line
    \/ decode_println

(* Log files.  A record is fields joined by sep between lead and trail,
   ended by a line feed or not. *)
RECURSIVE Numeral(_)
Numeral(n) ==
    IF n < 10 THEN <<DigitChars[n + 1]>>
    ELSE Numeral(n \div 10) \o <<DigitChars[(n % 10) + 1]>>

RECURSIVE Join(_, _)
Join(fields, sep) ==
    IF fields = <<>> THEN <<>>
    ELSE IF Len(fields) = 1 THEN fields[1]
         ELSE fields[1] \o sep \o Join(Tail(fields), sep)

Encode(r) ==
    r.lead \o Join(r.fields, r.sep) \o r.trail
        \o (IF r.nl THEN <<"\n">> ELSE <<>>)

RECURSIVE EncodeAll(_)
EncodeAll(rs) ==
    IF rs = <<>> THEN <<>> ELSE Encode(Head(rs)) \o EncodeAll(Tail(rs))

Record(fields) ==
    [fields |-> fields, sep |-> <<" ">>, lead |-> <<>>, trail |-> <<>>,
     nl |-> TRUE]

Event(keyword, operation, keycode) ==
    Record(<<<<Stamp>>, keyword, operation, keycode>>)

(* What a capture of xinput test output holds, and what else a file may
   hold: key events in and out of the table, keycodes that are no u8, a
   keycode with a sign, another second field, the listener's record at end of stream ("<ts> ",
   no line feed), a blank line, three fields, five fields, and a line with
   runs of spaces and a carriage return. *)
LogRecords ==
    {Event(<<"key">>, <<"press">>, Numeral(n)) : n \in {24, 30, 31, 36}}
    \cup {Event(<<"key">>, <<"release">>, Numeral(30))}
    \cup {Event(<<"key">>, op, c) :
             op \in {<<"press">>, <<"release">>},
             c \in {Numeral(256), <<Letters>>}}
    \cup {Event(<<"key">>, <<"press">>, <<"+">> \o Numeral(24))}
    \cup {Event(<<Letters>>, <<"press">>, Numeral(30))}
    \cup {[fields |-> <<<<Stamp>>>>, sep |-> <<" ">>, lead |-> <<>>,
           trail |-> <<" ">>, nl |-> FALSE]}
    \cup {Record(<<>>)}
    \cup {Record(<<<<Stamp>>, <<"key">>, <<"press">>>>)}
    \cup {Record(<<<<Stamp>>, <<"key">>, <<"press">>, Numeral(30),
                   <<Letters>>>>)}
    \cup {[fields |-> <<<<Stamp>>, <<"key">>, <<"press">>, Numeral(31)>>,
           sep |-> <<" ", " ", " ">>, lead |-> <<" ">>,
           trail |-> <<" ", "\r">>, nl |-> TRUE]}

RECURSIVE SeqsUpTo(_, _)
SeqsUpTo(S, n) ==
    IF n = 0 THEN {<<>>}
    ELSE LET shorter == SeqsUpTo(S, n - 1)
         IN  shorter \cup {Append(q, x) : q \in shorter, x \in S}

(* main was started with the path of a log file. *)
InitDecode ==
    /\ mainpc = "decode"
    /\ InitCapture(<<>>, TRUE, {})
    /\ records \in SeqsUpTo(LogRecords, MaxRecords)
    /\ contents = EncodeAll(records)
    /\ lines_iter = <<>>
    /\ results = <<>>
    /\ dpc = "read_to_string"
    /\ NoDiscovery

NextDecode ==
    \/ decode_read_to_string
    \/ decode_next_line
    \/ decode_println

SpecDecode == InitDecode /\ [][NextDecode]_vars

----------------------------------------------------------------------------
(* get_device_numbers and parse_device_numbers.  The listing is a sequence
   of single characters. *)

Chars(w) ==
    CASE w = "keychron" -> <<"k", "e", "y", "c", "h", "r", "o", "n">>
      [] w = "Keychron" -> <<"K", "e", "y", "c", "h", "r", "o", "n">>
      [] w = "Fluid=" -> <<"F", "l", "u", "i", "d", "=">>
      [] w = "mouse" -> <<"m", "o", "u", "s", "e">>
      [] w = "id=" -> <<"i", "d", "=">>

(* get_device_numbers("keychron") *)
device_name == Chars("keychron")

(* str::to_lowercase, for the characters of the model *)
to_lowercase(s) ==
    [k \in DOMAIN s |->
        CASE s[k] = "K" -> "k"
          [] s[k] = "F" -> "f"
          [] OTHER -> s[k]]

(* The pattern is at position k of s. *)
MatchAt(s, pat, k) ==
    k + Len(pat) - 1 <= Len(s) /\ SubSeq(s, k, k + Len(pat) - 1) = pat

(* str::contains *)
contains(s, pat) == \E k \in 1..Len(s) : MatchAt(s, pat, k)

(* str::find and str::rfind: the first and the last position of the
   pattern, in a text that contains it *)
find(s, pat) ==
    CHOOSE k \in 1..Len(s) :
        MatchAt(s, pat, k) /\ \A j \in 1..(k - 1) : ~MatchAt(s, pat, j)
rfind(s, pat) ==
    CHOOSE k \in 1..Len(s) :
        MatchAt(s, pat, k) /\ \A j \in (k + 1)..Len(s) : ~MatchAt(s, pat, j)

(* chars().take_while(char::is_ascii_digit).collect::<String>() *)
RECURSIVE take_while_digit(_)
take_while_digit(s) ==
    IF s # <<>> /\ to_digit(Head(s)) < 10
    THEN <<Head(s)>> \o take_while_digit(Tail(s))
    ELSE <<>>

(* line[id_position..] taken up to the first character that is no digit,
   id_position being rfind("id=") + 3 *)
number_text_first(text) ==
    LET id_position == find(text, Chars("id=")) + 3
    IN  take_while_digit(SubSeq(text, id_position, Len(text)))
number_text(text) ==
    LET id_position == rfind(text, Chars("id=")) + 3
    IN  take_while_digit(SubSeq(text, id_position, Len(text)))

(* number.parse::<u8>(), on which expect("Failed to parse id") panics when
   it is an Err *)
parse_id_or_zero(number) ==
    IF parse_u8(number) = ParseIntError THEN 0 ELSE parse_u8(number)
parse_id(number) == parse_u8(number)

(* The filter of parse_device_numbers' for loop *)
has_marker(text) == contains(text, Chars("id="))

(* spawn_child(&["xinput", "list"]) and read_into_string().unwrap(), both
   panicking on failure; the output and the device name are lowercased, and
   the lines that contain the name are kept. *)
get_device_numbers ==
    /\ gpc = "get_device_numbers"
    /\ \/ /\ matched_lines' =
                SelectSeq(lines(to_lowercase(output)),
                          LAMBDA l : contains(l, to_lowercase(device_name)))
          /\ gpc' = "parse_device_numbers"
          /\ UNCHANGED mainpc
       \/ /\ gpc' = "panic_list"
          /\ mainpc' = "panicked"
          /\ UNCHANGED matched_lines
    /\ UNCHANGED <<device_numbers, output, numbers, listed, decodeVars,
                   listenerVars, sinkVars, storeVars, runs, clock>>

(* The lines from the first that has the marker on *)
RECURSIVE SkipUnmarked(_)
SkipUnmarked(ls) ==
    IF ls # <<>> /\ ~has_marker(Head(ls)) THEN SkipUnmarked(Tail(ls)) ELSE ls

(* One iteration of parse_device_numbers' for loop, on the next matched line
   that contains "id=" *)
parse_device_numbers_next ==
    /\ gpc = "parse_device_numbers"
    /\ SkipUnmarked(matched_lines) # <<>>
    /\ LET rest == SkipUnmarked(matched_lines)
           number == parse_id(number_text(Head(rest)))
       IN  /\ matched_lines' = Tail(rest)
           /\ IF number = ParseIntError
              THEN /\ gpc' = "panic_parse"
                   /\ mainpc' = "panicked"
                   /\ UNCHANGED numbers
              ELSE /\ numbers' = Append(numbers, number)
                   /\ UNCHANGED <<gpc, mainpc>>
    /\ UNCHANGED <<device_numbers, output, listed, decodeVars, listenerVars,
                   sinkVars, storeVars, runs, clock>>

(* The loop is over: numbers is returned to run_listeners, which goes on to
   turn_on_listeners with it. *)
parse_device_numbers_return ==
    /\ gpc = "parse_device_numbers"
    /\ SkipUnmarked(matched_lines) = <<>>
    /\ matched_lines' = <<>>
    /\ gpc' = "returned"
    /\ device_numbers' = numbers
    /\ mainpc' = "turn_on_listeners"
    /\ lpc' = [i \in 1..Len(numbers) |-> "unspawned"]
    /\ line' = [i \in 1..Len(numbers) |-> <<>>]
    /\ closed' = [i \in 1..Len(numbers) |-> FALSE]
    /\ sent' = [i \in 1..Len(numbers) |-> <<>>]
    /\ produced' = [i \in 1..Len(numbers) |-> <<>>]
    /\ readAt' = [i \in 1..Len(numbers) |-> 0]
    /\ lastSendAt' = [i \in 1..Len(numbers) |-> 0]
    /\ UNCHANGED <<output, numbers, listed, decodeVars, chan, arrivals,
                   sinkVars, storeVars, runs, clock>>

(* What xinput list prints for a device: its name, which is free text, then
   the marker and the number xinput gave the device.  name says whether the
   text holds the device name; inner is what follows an "id=" inside the
   name: nothing there ("none"), a letter ("letter") or the digit 7
   ("digit"); tail is what follows the name: no marker ("none"), "id="
   and no digit ("empty"), "id=" and a letter ("letter"), "id=" and the
   decimal digits of id ("number"). *)
NameTexts ==
    {[text |-> Chars("Keychron"), named |-> TRUE, inner |-> "none"],
     [text |-> Chars("mouse"), named |-> FALSE, inner |-> "none"],
     [text |-> Chars("Fluid=") \o Chars("Keychron"), named |-> TRUE,
      inner |-> "letter"],
     [text |-> Chars("id=") \o <<"7", " ">> \o Chars("Keychron"),
      named |-> TRUE, inner |-> "digit"]}

Tails ==
    {[text |-> <<"\t">> \o Chars("id=") \o Numeral(n) \o <<"\t", "[">>,
      tail |-> "number", id |-> n] : n \in {5, 12, 256}}
    \cup {[text |-> <<"\t">> \o Chars("id=") \o <<"\t", "[">>,
           tail |-> "empty", id |-> 0],
          [text |-> <<"\t">> \o Chars("id=") \o <<"m", "5">>,
           tail |-> "letter", id |-> 0],
          [text |-> <<>>, tail |-> "none", id |-> 0]}

ListedDevices ==
    {[text |-> n.text \o t.text, named |-> n.named, inner |-> n.inner,
      tail |-> t.tail, id |-> t.id] : n \in NameTexts, t \in Tails}

RECURSIVE ListingText(_)
ListingText(ds) ==
    IF ds = <<>> THEN <<>>
    ELSE Head(ds).text \o <<"\n">> \o ListingText(Tail(ds))

(* run_listeners calls get_device_numbers. *)
InitDiscovery ==
    /\ mainpc = "get_device_numbers"
    /\ InitCapture(<<>>, FALSE, {})
    /\ NoDecode
    /\ listed \in SeqsUpTo(ListedDevices, MaxListed)
    /\ output = ListingText(listed)
    /\ matched_lines = <<>>
    /\ numbers = <<>>
    /\ gpc = "get_device_numbers"

NextDiscovery ==
    \/ get_device_numbers
    \/ parse_device_numbers_next
    \/ parse_device_numbers_return

SpecDiscovery == InitDiscovery /\ [][NextDiscovery]_vars

----------------------------------------------------------------------------
(* Histories *)

RECURSIVE Flatten(_)
Flatten(ms) == IF ms = <<>> THEN <<>> ELSE Head(ms).text \o Flatten(Tail(ms))

FromListener(ms, i) == LET mine(m) == m.from = i IN SelectSeq(ms, mine)

Occurrences(ms, m) == Cardinality({k \in DOMAIN ms : ms[k] = m})

(* The record the sink has received and not yet handed to the writer *)
InHand == IF mainpc = "write" THEN <<cur>> ELSE <<>>

SinkAborted == mainpc \in {"panicked", "exit_101"}

----------------------------------------------------------------------------
(* C1: per-producer order preservation.  For every listener, the records of
   that listener handed to the log writer are, in order, the first records
   it sent: a record sent earlier is never appended after one sent later. *)
C1_PerProducerOrder ==
    \A i \in Listeners : IsPrefix(FromListener(written, i), sent[i])

(* Two records of one listener are in the log, in a run with two
   listeners. *)
C1_Witness ==
    \E p, q \in DOMAIN written :
        /\ p < q
        /\ written[p].from = written[q].from
        /\ Len(device_numbers) = 2

----------------------------------------------------------------------------
C2_Safe ==
    /\ \A k \in DOMAIN arrivals :
          LET c == Occurrences(written \o InHand \o chan, arrivals[k])
          IN  IF SinkAborted THEN c <= 1 ELSE c = 1
    /\ ~SinkAborted => file \o buf = Flatten(written)

C2_Appended(i, n) ==
    /\ i \in Listeners
    /\ Len(sent[i]) >= n
    /\ Occurrences(written, sent[i][n]) = 1

----------------------------------------------------------------------------
(* C3: a listener whose read has returned 0 bytes (end of stream) has left
   its loop, and it has sent one record per line it read, none for the empty
   read. *)
C3_EndOfStreamEndsListener ==
    \A i \in Listeners :
        closed[i] =>
            /\ lpc[i] = "returned"
            /\ Len(sent[i]) = Len(SelectSeq(produced[i], LAMBDA g : g # Eof))

----------------------------------------------------------------------------
(* C4: once the stream of every listener has ended, the capture run
   terminates: the sink flushes and returns (or the run has aborted on a
   fatal error of the sink). *)
AllStreamsEnded == \A i \in Listeners : closed[i]

----------------------------------------------------------------------------
(* C5: every record put on the channel is one timestamp, one space and the
   line that the listener's read returned for it, newline-terminated. *)
C5_RecordShape ==
    \A k \in DOMAIN arrivals :
        LET m == arrivals[k]
            got == produced[m.from][m.n]
        IN  /\ got # Eof
            /\ \E t \in 0..MaxClock : m.text = <<TS(t), SP, RAW(got - 1), NL>>

----------------------------------------------------------------------------
(* C6: the records handed to the writer are those echoed, in the same order;
   the file is a prefix of the echo; what is echoed and not yet in the file
   is at most the buffer capacity plus the record last received; with no
   failed write the echo is the file, then the buffer, then the record in
   hand; after the final flush the file equals the echo. *)
C6_MirrorConsistency ==
    LET remainder == SubSeq(echoed, Len(file) + 1, Len(echoed))
    IN  /\ IsPrefix(Flatten(written), echoed)
        /\ IsPrefix(file, echoed)
        /\ ByteLen(remainder) <= BufCapacity + ByteLen(cur.text)
        /\ ~SinkAborted => echoed = file \o buf \o Flatten(InHand)
        /\ mainpc \in {"done", "exit_0"} => file = echoed

(* Part of the echo is in the file, and the rest, the buffered records and
   the one in hand, is larger than the buffer. *)
C6_Witness ==
    /\ mainpc = "write"
    /\ buf # <<>>
    /\ ByteLen(SubSeq(echoed, Len(file) + 1, Len(echoed))) > BufCapacity

----------------------------------------------------------------------------
(* C7: the step in which a listener's send fails changes that listener
   only: every other listener keeps its position, its line buffer and its
   stream, and the channel and the main thread are as before. *)
C7_FailureIsolation ==
    [][\A i \in Listeners :
          (lpc[i] = "send" /\ lpc'[i] = "panic_send") =>
              /\ \A j \in Listeners \ {i} :
                    /\ lpc'[j] = lpc[j]
                    /\ line'[j] = line[j]
                    /\ closed'[j] = closed[j]
              /\ chan' = chan
              /\ mainpc' = mainpc]_vars

(* One listener has died of a failed send while another, which has read a
   line, is still running. *)
C7_Witness ==
    \E i, j \in Listeners :
        /\ lpc[i] = "panic_send"
        /\ lpc[j] \in {"now", "read_line", "send"}
        /\ Len(produced[j]) >= 1

----------------------------------------------------------------------------
(* C8: a listener waiting in its read already holds the timestamp of the
   record to come; that timestamp is not later than the return of the read
   and not earlier than the listener's previous send; the timestamps of one
   listener's records in the log never decrease. *)
C8_TimestampSampling ==
    /\ \A i \in Listeners :
          lpc[i] \in {"read_line", "send"} =>
              /\ Len(line[i]) >= 2
              /\ line[i][1][1] = "ts"
              /\ lastSendAt[i] <= Timestamp(line[i])
              /\ Timestamp(line[i]) <= clock
    /\ \A i \in Listeners :
          lpc[i] = "send" => Timestamp(line[i]) <= readAt[i]
    /\ \A i \in Listeners :
          LET mine == FromListener(written, i)
          IN  \A p, q \in DOMAIN mine :
                  p < q => Timestamp(mine[p].text) <= Timestamp(mine[q].text)

(* A second record whose timestamp is earlier than the return of its read *)
C8_Witness ==
    \E i \in Listeners :
        /\ lpc[i] = "send"
        /\ Len(sent[i]) >= 1
        /\ Timestamp(line[i]) < readAt[i]

----------------------------------------------------------------------------
(* C9: the log holds the records in the order they arrived at the channel,
   whatever their timestamps. *)
C9_ArrivalOrder ==
    /\ IsPrefix(written, arrivals)
    /\ ~SinkAborted => written \o InHand \o chan = arrivals

(* A record of one listener is written before a record of another listener
   that has a smaller timestamp. *)
C9_Witness ==
    \E p, q \in DOMAIN written :
        /\ p < q
        /\ written[p].from # written[q].from
        /\ Timestamp(written[p].text) > Timestamp(written[q].text)

----------------------------------------------------------------------------
(* C10: the name allocated by get_log_file_path is not the name of an entry
   of the listing it was computed from. *)
C10_NoOverwrite == path # NoPath => path \notin listing

----------------------------------------------------------------------------
(* C11: the allocated name embeds the number of entries of the listing, in
   a directory that exists by then; the first run on an absent or empty
   directory gets counter 0; and the counters of the log files created by
   successive runs on one directory are strictly increasing. *)
C11_LogFileCounter ==
    /\ path # NoPath =>
          /\ dir_exists
          /\ path = log_file_name(Cardinality(listing))
    /\ (runs = 1 /\ path # NoPath /\ listing = {}) => path[2] = 0
    /\ \A p, q \in DOMAIN allocated :
          p < q => allocated[p] < allocated[q]

----------------------------------------------------------------------------
(* C12: when the run has aborted in create_new_log_file (the directory or
   the log file could not be created, so no log file was created), no
   listener thread has been spawned, no event source process has been
   started, no record has been put on the channel, and nothing has been
   echoed or written. *)
StartupAborted == SinkAborted /\ allocated = <<>>

C12_NoPartialOperation ==
    StartupAborted =>
        /\ \A i \in Listeners : lpc[i] = "unspawned"
        /\ arrivals = <<>>
        /\ echoed = <<>>
        /\ written = <<>>
        /\ file = <<>>

----------------------------------------------------------------------------
(* A record of a well-formed log: "<ts> key <operation> <keycode>" on a line
   of its own, the keycode a decimal number of 0..255. *)
WellFormedRecord(r) ==
    /\ Len(r.fields) = 4
    /\ r.fields[2] = <<"key">>
    /\ \E n \in 0..255 : r.fields[4] = Numeral(n)
    /\ r.nl

KeycodeOf(r) == CHOOSE n \in 0..255 : r.fields[4] = Numeral(n)

(* The Keycode Table characters of the press records, in order *)
RECURSIVE TableChars(_)
TableChars(rs) ==
    IF rs = <<>> THEN <<>>
    ELSE LET r == Head(rs)
         IN  (IF r.fields[3] = <<"press">>
                    /\ KeycodeOf(r) \in DOMAIN keycode_translation
              THEN <<keycode_translation[KeycodeOf(r)]>>
              ELSE <<>>)
             \o TableChars(Tail(rs))

(* C13: when every record of the log is well-formed the decode does not
   fail, the string built from the lines read so far is the table character
   of each press record with a keycode of the table, in file order, and
   that string for the whole file (empty for an empty file) is what is
   printed. *)
C13_DecodeResult ==
    (\A k \in DOMAIN records : WellFormedRecord(records[k])) =>
        /\ dpc # "ParseError"
        /\ dpc \in {"Reading", "EndOfInput"} =>
              results =
                TableChars(SubSeq(records, 1, Len(records) - Len(lines_iter)))
        /\ dpc = "EndOfInput" =>
              /\ lines_iter = <<>>
              /\ echoed = TableChars(records) \o <<"\n">>

(* press 30, press 31, release 30 has been decoded to "ui". *)
C13_Witness ==
    /\ dpc = "EndOfInput"
    /\ records = <<Event(<<"key">>, <<"press">>, Numeral(30)),
                   Event(<<"key">>, <<"press">>, Numeral(31)),
                   Event(<<"key">>, <<"release">>, Numeral(30))>>
    /\ echoed = <<"u", "i", "\n">>

----------------------------------------------------------------------------
(* The lines the for loop has taken so far, the one it failed on included *)
ConsumedLines ==
    IF dpc \in {"Reading", "ParseError", "EndOfInput"}
    THEN LET all == lines(contents)
         IN  SubSeq(all, 1, Len(all) - Len(lines_iter))
    ELSE <<>>

FieldsOf(k) == split_whitespace(ConsumedLines[k])

(* C14: every line the decoder has taken that does not split into exactly
   four fields with "key" as the second (fewer fields, more fields, a blank
   line, another second field) has put the Decoder in ParseError. *)
C14_LineShape ==
    \A k \in DOMAIN ConsumedLines :
        (Len(FieldsOf(k)) # 4 \/ FieldsOf(k)[2] # <<"key">>) =>
            dpc = "ParseError"

----------------------------------------------------------------------------
(* The text is a u8 for str::parse: an optional "+", then digits, leading
   zeros allowed, of a value of 0..255 *)
RECURSIVE StripZeros(_)
StripZeros(s) ==
    IF Len(s) > 1 /\ Head(s) = "0" THEN StripZeros(Tail(s)) ELSE s

IsU8Text(f) ==
    LET ds == IF f # <<>> /\ Head(f) = "+" THEN Tail(f) ELSE f
    IN  \E n \in 0..255 : StripZeros(ds) = Numeral(n)

(* C15, as stated: every four-field line the decoder has taken whose keycode
   field is not a u8 has put the Decoder in ParseError, whatever its
   operation. *)
C15_UnparsableKeycodeFatal ==
    \A k \in DOMAIN ConsumedLines :
        (Len(FieldsOf(k)) = 4 /\ ~IsU8Text(FieldsOf(k)[4])) =>
            dpc = "ParseError"

(* C15, amended: every line the decoder has taken whose operation is "press"
   and whose keycode field is not a u8 has put the Decoder in ParseError, it
   is never skipped; and a line of four fields or more with another
   operation is never the line the Decoder fails on, whatever its keycode
   field. *)
C15_PressKeycodeFatal ==
    \A k \in DOMAIN ConsumedLines :
        LET f == FieldsOf(k)
        IN  Len(f) >= 4 =>
              /\ (f[3] = <<"press">> /\ ~IsU8Text(f[4])) =>
                    dpc = "ParseError"
              /\ (dpc = "ParseError" /\ k = Len(ConsumedLines)) =>
                    f[3] = <<"press">>

(* The decode has failed on a press line with keycode 256, after lines that
   it decoded. *)
C15_Witness ==
    /\ dpc = "ParseError"
    /\ Len(ConsumedLines) >= 2
    /\ LET f == FieldsOf(Len(ConsumedLines))
       IN  /\ Len(f) = 4
           /\ f[3] = <<"press">>
           /\ f[4] = Numeral(256)

----------------------------------------------------------------------------
(* C16: the Decoder leaves Reading only for ParseError or EndOfInput, and
   stays there; stdout is written in one step only, the step into
   EndOfInput, taken when no line is left, and what it writes is the whole
   accumulated string; in ParseError nothing has been printed. *)
C16_Printed ==
    /\ dpc = "EndOfInput" =>
          /\ lines_iter = <<>>
          /\ echoed = results \o <<"\n">>
    /\ dpc # "EndOfInput" => echoed = <<>>

C16_Step ==
    /\ (dpc = "Reading" /\ dpc' # dpc) => dpc' \in {"ParseError", "EndOfInput"}
    /\ dpc \in {"ParseError", "EndOfInput"} => dpc' = dpc
    /\ echoed' # echoed =>
          /\ dpc = "Reading"
          /\ dpc' = "EndOfInput"
          /\ lines_iter = <<>>
          /\ echoed = <<>>

C16_BatchDecode == []C16_Printed /\ [][C16_Step]_vars

(* The decode has failed with characters accumulated, and printed nothing. *)
C16_Witness ==
    /\ dpc = "ParseError"
    /\ Len(results) >= 2
    /\ echoed = <<>>

----------------------------------------------------------------------------
(* The listing as xinput list printed it.  A candidate is a line that holds
   the device name and the marker; its identifier is what follows the last
   marker of the line, the one after the name when there is one. *)
Candidate(d) == d.named /\ (d.tail # "none" \/ d.inner # "none")

Parsable(d) ==
    /\ Candidate(d)
    /\ \/ d.tail = "number" /\ d.id <= 255
       \/ d.tail = "none" /\ d.inner = "digit"

IdOf(d) == IF d.tail = "number" THEN d.id ELSE 7

RECURSIVE ExpectedIds(_)
ExpectedIds(ds) ==
    IF ds = <<>> THEN <<>>
    ELSE (IF Parsable(Head(ds)) THEN <<IdOf(Head(ds))>> ELSE <<>>)
         \o ExpectedIds(Tail(ds))

(* C17: when discovery returns, the list it returns holds one identifier for
   each line of the listing that has the device name, in any case, and a
   parsable id= field, in the order of the lines, and each is the number
   that follows the last "id=" of its line; while the loop runs the list is
   a prefix of that; and discovery does not fail when the identifier of
   every candidate line is parsable. *)
C17_DiscoveryResult ==
    /\ gpc = "returned" =>
          /\ numbers = ExpectedIds(listed)
          /\ device_numbers = numbers
    /\ gpc = "parse_device_numbers" => IsPrefix(numbers, ExpectedIds(listed))
    /\ (\A k \in DOMAIN listed : Candidate(listed[k]) => Parsable(listed[k]))
          => gpc # "panic_parse"

(* Two identifiers have been returned, the first from a line whose name
   holds another "id=" with a digit after it. *)
C17_Witness ==
    /\ gpc = "returned"
    /\ Len(listed) = 2
    /\ listed[1].inner = "digit"
    /\ listed[1].tail = "number"
    /\ listed[2].text = Chars("Keychron") \o <<"\t">> \o Chars("id=")
                            \o Numeral(12) \o <<"\t", "[">>
    /\ device_numbers = <<listed[1].id, 12>>
    /\ listed[1].id # 12

----------------------------------------------------------------------------
(* The candidate lines, and how many of them the loop has taken, the one it
   failed on included *)
CandidatesListed == SelectSeq(listed, Candidate)

TakenCount ==
    IF gpc \in {"parse_device_numbers", "panic_parse", "returned"}
    THEN Len(CandidatesListed) - Len(SelectSeq(matched_lines, has_marker))
    ELSE 0

(* C18, as stated: every candidate line taken that holds an "id=" followed
   at once by a character that is no digit, or by nothing, has made the
   parse fail, and no list is returned. *)
C18_EmptyIdentifierFatal ==
    \A k \in 1..TakenCount :
        LET d == CandidatesListed[k]
        IN  (d.inner = "letter" \/ d.tail \in {"empty", "letter"}) =>
                /\ gpc = "panic_parse"
                /\ device_numbers = <<>>

(* C18, amended: every candidate line taken whose last "id=" is followed at
   once by a character that is no digit, or by nothing, has made the parse
   fail, and no list is returned. *)
C18_LastMarkerEmptyFatal ==
    \A k \in 1..TakenCount :
        LET d == CandidatesListed[k]
        IN  (d.tail \in {"empty", "letter"}
                \/ (d.tail = "none" /\ d.inner = "letter")) =>
                /\ gpc = "panic_parse"
                /\ device_numbers = <<>>

(* The parse has failed on a second candidate line, whose "id=" has no
   digit after it, with the identifier of the first already in numbers. *)
C18_Witness ==
    /\ gpc = "panic_parse"
    /\ TakenCount = 2
    /\ CandidatesListed[2].tail = "empty"
    /\ Len(numbers) = 1

----------------------------------------------------------------------------
(* C19: discovery returns only when every line that holds the device name
   gave an identifier: a line with the name and no "id=", or with a
   malformed identifier, makes it abort. *)
C19_MissingIdentifierFatal ==
    gpc = "returned" =>
        \A k \in DOMAIN listed : listed[k].named => Parsable(listed[k])

----------------------------------------------------------------------------
(* C20: there is one listener thread per device number, all spawned once
   turn_on_listeners has returned; from then on the channel is disconnected
   exactly when every listener thread has exited; the sink is at its flush,
   or past it, only when every listener has exited and the queue is
   drained; with no device the receive fails at once, and the run ends with
   a log file that was created and is empty, nothing echoed. *)
C20_ChannelClosure ==
    /\ DOMAIN lpc = 1..Len(device_numbers)
    /\ mainpc # "turn_on_listeners" =>
          /\ \A i \in Listeners : lpc[i] # "unspawned"
          /\ Disconnected <=> \A i \in Listeners : Exited(i)
    /\ mainpc \in {"flush", "done", "exit_0"} =>
          /\ \A i \in Listeners : Exited(i)
          /\ chan = <<>>
    /\ Len(device_numbers) = 0 =>
          /\ mainpc = "recv" => (chan = <<>> /\ Disconnected)
          /\ mainpc \in {"done", "exit_0"} =>
                /\ path \in entries
                /\ file = <<>>
                /\ echoed = <<>>

(* The sink has flushed and ended after both listeners of a run exited, one
   of them after a record of its own was written. *)
C20_Witness ==
    /\ mainpc = "done"
    /\ Len(device_numbers) = 2
    /\ \A i \in Listeners : Exited(i)
    /\ written # <<>>
    /\ file = Flatten(written)

====
